---- MODULE Spec2Model ----
(***************************************************************************)
(* json-link: loading a JSON document and inlining the documents it links  *)
(* to.  The model follows the latest variant of the loader                 *)
(* (src/unnamed/part_001: loadJSON, resolve, replace, Source) and of the   *)
(* repository access (src/lib/git.js).                                     *)
(*                                                                         *)
(* Text is a sequence of one-character strings.  A JSON value is a record  *)
(* [t, s, keys, kids]: t its type, s the text of a string, keys the        *)
(* property names of an object, kids the elements of an array or the       *)
(* property values of an object.                                           *)
(***************************************************************************)
EXTENDS Integers, Sequences, FiniteSets, TLC

\* ------------------------------------------------------------------ bounds
\* Most load calls (loadJSON invocations) of one top-level call.
MaxLoads == 3
\* Most text segments of an input to replace().
MaxSegs == 3

\* ------------------------------------------------------------------- text
\* JavaScript's undefined / null where a text is expected.
Undef == <<"undefined">>
Null == <<"null">>

\* The characters the regular expression class \w matches.
WordChars == {"a", "b", "c", "d", "k", "m", "r", "v", "w", "x", "y", "1", "2"}

\* String.prototype.indexOf(ch): 0 when absent, else the 1-based place.
IndexOf(s, ch) ==
    IF \E i \in 1..Len(s) : s[i] = ch
    THEN CHOOSE i \in 1..Len(s) : s[i] = ch /\ \A j \in 1..(i-1) : s[j] # ch
    ELSE 0

\* s with its first n characters dropped: s.substring( n ).
Drop(s, n) == SubSeq(s, n + 1, Len(s))

\* s cut to its first n characters: s.substring( 0, n ).
Take(s, n) == SubSeq(s, 1, n)

\* ------------------------------------------------------------------ replace
\* A variable context: names to values; a name outside the domain is absent.
EnvGet(env, name) == IF name \in DOMAIN env THEN env[name] ELSE <<>>

\* Whether \$\{(\w+)\} matches s from place i on.
TokAt(s, i) ==
    /\ i + 3 <= Len(s)
    /\ s[i] = "$"
    /\ s[i + 1] = "{"
    /\ \E j \in (i + 3)..Len(s) :
          /\ s[j] = "}"
          /\ \A k \in (i + 2)..(j - 1) : s[k] \in WordChars

\* The place of the } that closes the token starting at i.
TokEnd(s, i) ==
    CHOOSE j \in (i + 3)..Len(s) :
        /\ s[j] = "}"
        /\ \A k \in (i + 2)..(j - 1) : s[k] \in WordChars

\* /^(.*)\$\{(\w+)\}(.*)$/.exec( str ): the leading group is greedy, so
\* the token matched is the LAST one of str.  0 when there is no match.
RegexExec(str) ==
    IF \E i \in 1..Len(str) : TokAt(str, i)
    THEN CHOOSE i \in 1..Len(str) :
            TokAt(str, i) /\ \A j \in (i + 1)..Len(str) : ~TokAt(str, j)
    ELSE 0

RECURSIVE ReplaceLoop(_, _, _)
ReplaceLoop(str, env, result) ==
    LET i == RegexExec(str) IN
    IF i # 0
    THEN LET e        == TokEnd(str, i)
             leading  == Take(str, i - 1)
             name     == SubSeq(str, i + 2, e - 1)
             trailing == Drop(str, e)
         IN  ReplaceLoop(trailing, env, result \o leading \o EnvGet(env, name))
    ELSE result \o str

replace(str, env) == ReplaceLoop(str, env, <<>>)

\* ---------------------------------------------------------------- node path
RECURSIVE SplitAt(_, _)
\* s.split( ch ): the pieces of s between the occurrences of ch.
SplitAt(s, ch) ==
    LET i == IndexOf(s, ch) IN
    IF i = 0 THEN <<s>> ELSE <<Take(s, i - 1)>> \o SplitAt(Drop(s, i), ch)

RECURSIVE JoinWith(_, _)
\* parts.join( ch )
JoinWith(parts, ch) ==
    IF Len(parts) = 0 THEN <<>>
    ELSE IF Len(parts) = 1 THEN parts[1]
    ELSE parts[1] \o <<ch>> \o JoinWith(Tail(parts), ch)

RECURSIVE NormalizeParts(_, _, _)
\* posix normalizeString: drops empty and "." components and folds "..".
NormalizeParts(parts, acc, isAbs) ==
    IF Len(parts) = 0 THEN acc
    ELSE LET c == parts[1] rest == Tail(parts) IN
         IF c = <<>> \/ c = <<".">> THEN NormalizeParts(rest, acc, isAbs)
         ELSE IF c = <<".", ".">>
         THEN IF Len(acc) > 0 /\ acc[Len(acc)] # <<".", ".">>
              THEN NormalizeParts(rest, Take(acc, Len(acc) - 1), isAbs)
              ELSE IF isAbs THEN NormalizeParts(rest, acc, isAbs)
              ELSE NormalizeParts(rest, Append(acc, c), isAbs)
         ELSE NormalizeParts(rest, Append(acc, c), isAbs)

\* Path.normalize( p ) of node's posix path module.
PathNormalize(p) ==
    IF Len(p) = 0 THEN <<".">>
    ELSE LET isAbs    == p[1] = "/"
             trailing == p[Len(p)] = "/"
             body     == JoinWith(NormalizeParts(SplitAt(p, "/"), <<>>, isAbs), "/")
             body2    == IF Len(body) = 0 /\ ~isAbs THEN <<".">> ELSE body
             body3    == IF Len(body) > 0 /\ trailing THEN body2 \o <<"/">> ELSE body2
         IN  IF isAbs THEN <<"/">> \o body3 ELSE body3

\* Path.join( a, b ): empty arguments are skipped, the rest joined and normalized.
PathJoin(a, b) ==
    IF Len(a) = 0 /\ Len(b) = 0 THEN <<".">>
    ELSE IF Len(a) = 0 THEN PathNormalize(b)
    ELSE IF Len(b) = 0 THEN PathNormalize(a)
    ELSE PathNormalize(a \o <<"/">> \o b)

RECURSIVE StripSlashes(_)
StripSlashes(p) ==
    IF Len(p) > 1 /\ p[Len(p)] = "/" THEN StripSlashes(Take(p, Len(p) - 1)) ELSE p

\* The last place of "/" in p, 0 when there is none.
LastSlash(p) ==
    IF \E i \in 1..Len(p) : p[i] = "/"
    THEN CHOOSE i \in 1..Len(p) : p[i] = "/" /\ \A j \in (i + 1)..Len(p) : p[j] # "/"
    ELSE 0

\* Path.dirname( p )
PathDirname(p) ==
    IF Len(p) = 0 THEN <<".">>
    ELSE LET q == StripSlashes(p)
             i == LastSlash(q)
         IN  IF i = 0 THEN <<".">>
             ELSE IF i = 1 THEN <<"/">>
             ELSE StripSlashes(Take(q, i - 1))

\* Path.resolve( p ) of an absolute path: normalized, no trailing slash.
PathResolve(p) == StripSlashes(PathNormalize(p))

\* ------------------------------------------------------------- JSON values
Str(s) == [t |-> "str", s |-> s, keys |-> <<>>, kids |-> <<>>]
Num(s) == [t |-> "num", s |-> s, keys |-> <<>>, kids |-> <<>>]
Nul == [t |-> "null", s |-> <<>>, keys |-> <<>>, kids |-> <<>>]
Arr(kids) == [t |-> "arr", s |-> <<>>, keys |-> <<>>, kids |-> kids]
Obj(keys, kids) == [t |-> "obj", s |-> <<>>, keys |-> keys, kids |-> kids]

\* value[0] == '@'
IsLink(v) == v.t = "str" /\ Len(v.s) > 0 /\ v.s[1] = "@"

\* The text of a file or of a subprocess's stdout: the serialisation of a
\* JSON document, text that is no JSON, or no text at all.
JsonText(doc) == [kind |-> "json", doc |-> doc]
Garbage == [kind |-> "garbage", doc |-> Nul]
Empty == [kind |-> "empty", doc |-> Nul]

\* JSON.parse( json ): throws a SyntaxError on anything but well-formed JSON.
JSONparse(text) ==
    IF text.kind = "json" THEN [ok |-> TRUE, data |-> text.doc]
    ELSE [ok |-> FALSE, data |-> Nul]

\* A constructor that keeps the file path as it is given.
MutSourceKeepHash(repoPath, filePath, commitish) ==
    [repoPath |-> repoPath, filePath |-> filePath, commitish |-> commitish]

\* new Source( repoPath, filePath, commitish ): a # in filePath splits it
\* into the path and the commit-ish, which takes precedence.
NewSource(repoPath, filePath, commitish) ==
    LET idx == IndexOf(filePath, "#") - 1 IN
    IF idx > -1
    THEN [repoPath |-> repoPath,
          filePath |-> Take(filePath, idx),
          commitish |-> Drop(filePath, idx + 1)]
    ELSE [repoPath |-> repoPath, filePath |-> filePath, commitish |-> commitish]

\* The earlier variant of Source.resolve: joins onto the file path itself.
MutResolveOnFile(this, ref) ==
    LET filePath == IF Len(ref) = 0 \/ ref[1] # "/"
                    THEN PathJoin(this.filePath, ref)
                    ELSE ref
    IN  NewSource(this.repoPath, filePath, this.commitish)

\* A resolve that lets the containing document's revision win.
MutResolveKeepRev(this, ref) ==
    LET filePath == IF Len(ref) = 0 \/ ref[1] # "/"
                    THEN PathJoin(PathDirname(this.filePath), ref)
                    ELSE ref
        made == NewSource(this.repoPath, filePath, this.commitish)
    IN  [made EXCEPT !.commitish = this.commitish]

\* Source.resolve( ref ), ref a path text.
Source_resolve(this, ref) ==
    LET filePath == IF Len(ref) = 0 \/ ref[1] # "/"
                    THEN PathJoin(PathDirname(this.filePath), ref)
                    ELSE ref
    IN  NewSource(this.repoPath, filePath, this.commitish)

\* ------------------------------------------------------------- environment
\* What the file system or a git subprocess answers to one request:
\*   err   the code of the error raised ("" when none): for a file read the
\*         errno of FS.readFile, for a subprocess the code of spawn's
\*         'error' event (the command could not be invoked);
\*   code  the subprocess's exit status;
\*   text  the file's content, or the subprocess's stdout.
Answer(err, code, text) == [err |-> err, code |-> code, text |-> text]

\* The request a read makes: a file read of `arg`, or `git show <arg>` run
\* in the working directory cwd.
FsKey(path) == [via |-> "fs", cwd |-> <<>>, arg |-> path]
GitKey(cwd, arg) == [via |-> "git", cwd |-> cwd, arg |-> arg]

Master == <<"m", "a", "s", "t", "e", "r">>

\* ------------------------------------------------------------------ git.js
\* git( cwd, args ): rejects when the command cannot be invoked ('error'),
\* and otherwise resolves with the exit code and stdout, whatever the code.
git(answer) ==
    IF answer.err # ""
    THEN [rejected |-> TRUE, ecode |-> answer.err, code |-> 0, stdout |-> Empty]
    ELSE [rejected |-> FALSE, ecode |-> "", code |-> answer.code, stdout |-> answer.text]

\* A Git.read that always asks for the file on master.
MutShowArgMaster(path, commitish) == Master \o <<":">> \o path

\* The argument Git.read passes to git show: `${commitish}:${path}`, the
\* commit-ish defaulting to master when it is undefined or empty.
ShowArg(path, commitish) ==
    LET c == IF commitish = Undef \/ commitish = <<>> THEN Master ELSE commitish
    IN  c \o <<":">> \o path

\* Git.read( repoDir, path, commitish ), given git's answer: stdout.
Git_read(answer) ==
    LET r == git(answer) IN
    [rejected |-> r.rejected, ecode |-> r.ecode, from |-> "spawn", text |-> r.stdout]

\* Source.read(): through git when the source has a repository, else
\* through the file system.
ReadKey(src) ==
    IF src.repoPath # Null
    THEN GitKey(src.repoPath, ShowArg(src.filePath, src.commitish))
    ELSE FsKey(src.filePath)

Source_read(src, answer) ==
    IF src.repoPath # Null
    THEN Git_read(answer)
    ELSE IF answer.err # ""
         THEN [rejected |-> TRUE, ecode |-> answer.err, from |-> "fs", text |-> Empty]
         ELSE [rejected |-> FALSE, ecode |-> "", from |-> "fs", text |-> answer.text]

\* ------------------------------------------------------------------- state
VARIABLES
    nodes,   \* the pending and settled calls of one top-level loadJSON: a
             \* function from a call's place in the call tree to its record
    world,   \* what the file system and git have answered so far, by request
    env,     \* the variable context of the top-level call
    root,    \* the arguments of the top-level call
    call     \* the arguments and result of a direct call of replace() or
             \* of Source.resolve()

vars == <<nodes, world, env, root, call>>

NoErr == [code |-> "", from |-> ""]
NoSource == [repoPath |-> Null, filePath |-> <<>>, commitish |-> Undef]
NoAnswer == Answer("", 0, Empty)

\* The record of a loadJSON call: st is "parse" (before Source.parseSource),
\* "read" (awaiting source.read()), "wait" (awaiting resolve of the parsed
\* data), "ok" (resolved with out) or "err" (rejected with err).
\* nxt is the rank of the completion of its read among the reads of the
\* top-level call (0 while the read is pending).
LoadNode(src, required, st) ==
    [k |-> "load", val |-> Nul, out |-> Nul, src |-> src, req |-> required,
     st |-> st, nxt |-> 0, err |-> NoErr, ans |-> NoAnswer, dl |-> FALSE]

\* The record of a resolve call on value: st is "wait", "ok" or "err"; out
\* is the value being built (an object is filled in place).
ResNode(value, src, st) ==
    [k |-> "res", val |-> value, out |-> value, src |-> src, req |-> FALSE,
     st |-> st, nxt |-> 1, err |-> NoErr, ans |-> NoAnswer, dl |-> FALSE]

\* The places of the loadJSON calls among ns.
Loads(ns) == {p \in DOMAIN ns : ns[p].k = "load"}

\* How many reads of the loadJSON calls among ns have completed.
ReadsOver(ns) == Cardinality({p \in Loads(ns) : ns[p].st \notin {"parse", "read"}})

\* ----------------------------------------------------------------- resolve
\* The link branch of resolve up to the required flag: the path is the
\* value without its sigil, with variables replaced; a leading ! of the
\* replaced text marks the link required and is dropped.
LinkOf(value, e) ==
    LET path == replace(Drop(value.s, 1), e)
        required == Len(path) > 0 /\ path[1] = "!"
    IN  [required |-> required,
         path |-> IF required THEN Drop(path, 1) ELSE path]

RECURSIVE Spawn(_, _, _, _)
RECURSIVE SpawnItems(_, _, _, _, _)

\* The calls value.map( i => resolve( i, source, env ) ) starts, from item i on.
SpawnItems(p, kids, i, src, e) ==
    IF i > Len(kids) THEN [x \in {} |-> ResNode(Nul, src, "ok")]
    ELSE Spawn(Append(p, i), kids[i], src, e) @@ SpawnItems(p, kids, i + 1, src, e)

\* A resolve that detects a link back to the document that holds it and
\* puts null in its place.
MutSpawnSkipsSelf(p, value, src, e) ==
    IF IsLink(value) /\ Source_resolve(src, LinkOf(value, e).path) = src
    THEN (p :> [ResNode(value, src, "ok") EXCEPT !.out = Nul])
    ELSE IF IsLink(value)
    THEN LET l == LinkOf(value, e) IN
         (p :> ResNode(value, src, "wait"))
         @@ (Append(p, 1) :> LoadNode(Source_resolve(src, l.path), l.required, "read"))
    ELSE IF value.t = "arr"
    THEN IF Len(value.kids) = 0 THEN (p :> ResNode(value, src, "ok"))
         ELSE (p :> ResNode(value, src, "wait"))
              @@ SpawnItems(p, value.kids, 1, src, e)
    ELSE IF value.t = "obj"
    THEN IF Len(value.kids) = 0 THEN (p :> ResNode(value, src, "ok"))
         ELSE (p :> ResNode(value, src, "wait"))
              @@ Spawn(Append(p, 1), value.kids[1], src, e)
    ELSE (p :> ResNode(value, src, "ok"))

\* A resolve that replaces the variables of every string it meets.
MutSpawnExpandsStrings(p, value, src, e) ==
    IF IsLink(value)
    THEN LET l == LinkOf(value, e) IN
         (p :> ResNode(value, src, "wait"))
         @@ (Append(p, 1) :> LoadNode(Source_resolve(src, l.path), l.required, "read"))
    ELSE IF value.t = "arr"
    THEN IF Len(value.kids) = 0 THEN (p :> ResNode(value, src, "ok"))
         ELSE (p :> ResNode(value, src, "wait"))
              @@ SpawnItems(p, value.kids, 1, src, e)
    ELSE IF value.t = "obj"
    THEN IF Len(value.kids) = 0 THEN (p :> ResNode(value, src, "ok"))
         ELSE (p :> ResNode(value, src, "wait"))
              @@ Spawn(Append(p, 1), value.kids[1], src, e)
    ELSE IF value.t = "str"
    THEN (p :> [ResNode(value, src, "ok") EXCEPT !.out = Str(replace(value.s, e))])
    ELSE (p :> ResNode(value, src, "ok"))

\* resolve( value, source, env ) called at place p, run up to its first
\* await: the calls it has started, by place.
Spawn(p, value, src, e) ==
    IF IsLink(value)
    THEN LET l == LinkOf(value, e) IN
         (p :> ResNode(value, src, "wait"))
         @@ (Append(p, 1) :> LoadNode(Source_resolve(src, l.path), l.required, "read"))
    ELSE IF value.t = "arr"
    THEN IF Len(value.kids) = 0 THEN (p :> ResNode(value, src, "ok"))
         ELSE (p :> ResNode(value, src, "wait"))
              @@ SpawnItems(p, value.kids, 1, src, e)
    ELSE IF value.t = "obj"
    THEN IF Len(value.kids) = 0 THEN (p :> ResNode(value, src, "ok"))
         ELSE (p :> ResNode(value, src, "wait"))
              @@ Spawn(Append(p, 1), value.kids[1], src, e)
    ELSE (p :> ResNode(value, src, "ok"))

\* --------------------------------------------------------------- the inputs
\* The documents a file may hold.
DLeaf == Obj(<<"v">>, <<Num(<<"1">>)>>)
DLeaf2 == Obj(<<"v">>, <<Num(<<"2">>)>>)
DOpt == Obj(<<"k">>, <<Str(<<"@", "b">>)>>)
DReq == Obj(<<"k">>, <<Str(<<"@", "!", "b">>)>>)
DArr == Arr(<<Str(<<"@", "b">>), Str(<<"@", "c">>)>>)
DUp == Obj(<<"k">>, <<Str(<<"@", ".", ".", "/", "c">>)>>)
DVar == Obj(<<"k">>, <<Str(<<"@", "$", "{", "v", "}", "/", "b">>)>>)
DTwo == Obj(<<"k">>, <<Str(<<"@", "$", "{", "v", "}", "/", "$", "{", "w", "}">>)>>)
DRev == Arr(<<Str(<<"@", "b", "#", "1">>), Str(<<"@", "b">>)>>)
DRevs == Obj(<<"k", "j">>, <<Str(<<"@", "b", "#", "1">>), Str(<<"@", "b", "#", "2">>)>>)
DAbs == Obj(<<"k">>, <<Str(<<"@", "/", "x", "/", "b">>)>>)
DPlain == Obj(<<"s", "t">>, <<Str(<<"n", "$", "{", "v", "}">>), Arr(<<Str(<<"b">>), Nul>>)>>)
DMark == Obj(<<"k">>, <<Str(<<"@", "$", "{", "m", "}", "b">>)>>)
DSelf == Obj(<<"k">>, <<Str(<<"@", "a">>)>>)

Docs == {DLeaf, DLeaf2, DOpt, DReq, DArr, DUp, DVar, DTwo, DRev, DRevs, DAbs,
         DPlain, DMark, DSelf}

\* The variable contexts of a top-level call.
Envs == {
    [n \in {} |-> <<>>],
    (<<"v">> :> <<"y">>) @@ (<<"w">> :> <<"b">>) @@ (<<"m">> :> <<"!">>)
}

\* The references a top-level call is given: a path text, or a Source.
RootTexts == {<<"/", "x", "/", "a", "#", "1">>, <<"/", "x", "/", "y", "/", "a">>}
RootSources == {
    NewSource(<<"/", "r">>, <<"x", "/", "a">>, Undef),
    NewSource(<<"/", "r">>, <<"x", "/", "a">>, <<"1">>)
}

\* Every reference is loaded with the default required = true, and one
\* path text and one Source also with required = false.
RootArgs ==
    ({[isSource |-> FALSE, text |-> t, source |-> NoSource, required |-> r] :
        t \in RootTexts, r \in BOOLEAN}
     \cup
     {[isSource |-> TRUE, text |-> <<>>, source |-> s, required |-> r] :
        s \in RootSources, r \in BOOLEAN})
    \ {[isSource |-> FALSE, text |-> <<"/", "x", "/", "a", "#", "1">>,
         source |-> NoSource, required |-> FALSE],
        [isSource |-> TRUE, text |-> <<>>,
         source |-> NewSource(<<"/", "r">>, <<"x", "/", "a">>, Undef), required |-> FALSE]}

\* What `git show <rev>:<path>` can answer: the command cannot be invoked,
\* or it exits 128 with no output (no such revision, no such path), or,
\* for a path relative to the repository root, it prints the file.
GitShowable(arg) ==
    LET i == IndexOf(arg, ":") IN
    /\ i > 1
    /\ Len(arg) > i
    /\ arg[i + 1] # "/"

Contents == {Garbage} \cup {JsonText(d) : d \in Docs}

Answers(key) ==
    IF key \in DOMAIN world THEN {world[key]}
    ELSE IF key.via = "fs"
    THEN {Answer("ENOENT", 0, Empty), Answer("EACCES", 0, Empty)}
         \cup {Answer("", 0, c) : c \in Contents}
    ELSE {Answer("ENOENT", 0, Empty), Answer("EACCES", 0, Empty),
          Answer("", 128, Empty)}
         \cup (IF GitShowable(key.arg)
                THEN {Answer("", 0, c) : c \in Contents} ELSE {})

\* The directories above dir, dir included, the file system root excluded.
Ancestors(dir) ==
    {Take(dir, i) : i \in {j \in 2..Len(dir) : j = Len(dir) \/ dir[j + 1] = "/"}}

\* git's answer to a rev-parse query before any is made.
NoQuery == [err |-> "", code |-> 0, stdout |-> <<>>]

NoCall == [op |-> "none", str |-> <<>>, env |-> [n \in {} |-> <<>>],
           this |-> NoSource, result |-> <<>>, made |-> NoSource,
           bare |-> NoQuery, top |-> NoQuery]

Init ==
    /\ root \in RootArgs
    /\ env \in Envs
    /\ nodes = (<<>> :> LoadNode(NoSource, root.required, "parse"))
    /\ world = [x \in {} |-> NoAnswer]
    /\ call = NoCall

\* ------------------------------------------------------------- parseSource
\* parts.indexOf( p => p.endsWith('.git') ): Array.prototype.indexOf looks
\* for an element identical to its argument, here a function, among texts,
\* and finds none.
IndexOfFunction(parts) == -1

\* stdout.trim()
Trim(s) == SelectSeq(s, LAMBDA ch : ch # "\n")

\* What `git rev-parse --show-toplevel` run in dir can answer: it cannot be
\* invoked, it exits 128 with no output (not in a work tree), or it prints
\* the top-level directory of the work tree that holds dir.
TopLevelAnswers(dir) ==
    {[err |-> "ENOENT", code |-> 0, stdout |-> <<>>],
     [err |-> "", code |-> 128, stdout |-> <<>>]}
    \cup {[err |-> "", code |-> 0, stdout |-> top \o <<"\n">>] : top \in Ancestors(dir)}

\* Git.getRoot( filePath ), given git's answer.
Git_getRoot(answer) ==
    IF answer.err # "" THEN Null
    ELSE IF answer.stdout # <<>> THEN Trim(answer.stdout)
    ELSE Null

\* Git.isBare( path ), given git's answer.
Git_isBare(answer) ==
    IF answer.err # "" THEN FALSE
    ELSE Trim(answer.stdout) = <<"t", "r", "u", "e">>

\* Source.parseSource( ref ) of a path text, given git's answers.
parseSource(ref, bareAnswer, topAnswer) ==
    LET parts == SplitAt(ref, "/")
        idx   == IndexOfFunction(parts)
        bareRepo == JoinWith(SubSeq(parts, 1, idx), "/")
        repoPath == Git_getRoot(topAnswer)
    IN  IF idx > -1 /\ Git_isBare(bareAnswer)
        THEN NewSource(bareRepo, JoinWith(SubSeq(parts, idx + 1, Len(parts)), "/"), Undef)
        ELSE IF repoPath # Null
        THEN NewSource(repoPath, Drop(PathResolve(ref), Len(repoPath)), Undef)
        ELSE NewSource(Null, ref, Undef)

\* The top-level loadJSON up to its read: Source.parseSource( ref ).
ParseSource ==
    /\ nodes[<<>>].st = "parse"
    /\ \E a \in TopLevelAnswers(PathDirname(root.text)) :
          LET src == IF root.isSource THEN root.source
                     ELSE parseSource(root.text, a, a)
          IN  nodes' = [nodes EXCEPT ![<<>>].src = src, ![<<>>].st = "read"]
    /\ UNCHANGED <<world, env, root, call>>

\* ---------------------------------------------------------------- loadJSON
\* A catch block that turns every failure of an optional load into null.
MutCaughtAny(n, e) ==
    IF ~n.req
    THEN [n EXCEPT !.st = "ok", !.out = Nul]
    ELSE [n EXCEPT !.st = "err", !.err = e]

\* The catch block of loadJSON: a rejected read or a failed parse becomes
\* null when its code is ENOENT and the call is not required.
Caught(n, e) ==
    IF e.code = "ENOENT" /\ ~n.req
    THEN [n EXCEPT !.st = "ok", !.out = Nul]
    ELSE [n EXCEPT !.st = "err", !.err = e]

\* A call has settled and the call awaiting it has not gone on yet: a
\* promise reaction is queued.
Queued(p) == p # <<>> /\ nodes[p].st \in {"ok", "err"} /\ ~nodes[p].dl

\* The read of the loadJSON call at p completes: the body of loadJSON from
\* `await source.read()` on. The completion of a read is a callback of the
\* event loop, which runs once the queued promise reactions have run.
ReadDone(p) ==
    /\ nodes[p].k = "load"
    /\ nodes[p].st = "read"
    /\ \A q \in DOMAIN nodes : ~Queued(q)
    /\ LET n   == nodes[p]
           key == ReadKey(n.src)
       IN  \E a \in Answers(key) :
             LET r    == Source_read(n.src, a)
                 n1   == [n EXCEPT !.ans = a, !.nxt = ReadsOver(nodes) + 1]
                 data == JSONparse(r.text)
             IN  /\ world' = IF key \in DOMAIN world THEN world ELSE (key :> a) @@ world
                 /\ nodes' =
                       IF r.rejected
                       THEN [nodes EXCEPT ![p] = Caught(n1, [code |-> r.ecode, from |-> r.from])]
                       ELSE IF ~data.ok
                       THEN [nodes EXCEPT ![p] = Caught(n1, [code |-> "", from |-> "parse"])]
                       ELSE [nodes EXCEPT ![p] = [n1 EXCEPT !.st = "wait"]]
                            @@ Spawn(Append(p, 1), data.data, n.src, env)
                 /\ Cardinality(Loads(nodes')) <= MaxLoads
    /\ UNCHANGED <<env, root, call>>

\* The place of the call that awaits the call at p.
Parent(p) == SubSeq(p, 1, Len(p) - 1)

\* Whether every item of the array resolved at q, item i left aside, has
\* delivered a value.
OthersDelivered(q, i) ==
    \A j \in 1..Len(nodes[q].val.kids) :
        j # i => nodes[Append(q, j)].dl /\ nodes[Append(q, j)].st = "ok"

\* A Promise.all that collects the values in the order they arrive.
MutArrayByCompletion(q, i, c) ==
    LET n == nodes[q]
        arrived == Cardinality({j \in 1..Len(n.val.kids) : nodes[Append(q, j)].dl})
    IN  IF n.st # "wait" THEN n
        ELSE IF c.st = "err" THEN [n EXCEPT !.st = "err", !.err = c.err]
        ELSE [n EXCEPT !.out.kids[arrived + 1] = c.out,
                       !.st = IF OthersDelivered(q, i) THEN "ok" ELSE "wait"]

\* The array branch of resolve, Promise.all( value.map( ... ) ), when its
\* item i settles as c: the first rejection rejects the whole, and the
\* values are kept by position.
ArraySettled(q, i, c) ==
    LET n == nodes[q] IN
    IF n.st # "wait" THEN n
    ELSE IF c.st = "err" THEN [n EXCEPT !.st = "err", !.err = c.err]
    ELSE [n EXCEPT !.out.kids[i] = c.out,
                   !.st = IF OthersDelivered(q, i) THEN "ok" ELSE "wait"]

\* A loadJSON that returns the parsed data as it is, links unresolved.
MutAdoptInput(q, c) ==
    LET n == nodes[q] IN
    IF n.k = "load" /\ c.st = "ok" THEN [n EXCEPT !.st = "ok", !.out = c.val]
    ELSE [n EXCEPT !.st = c.st, !.out = c.out, !.err = c.err]

\* A loadJSON that awaits resolve inside its try block, so that its catch
\* also sees the failures of the links of its document.
MutAdoptInsideTry(q, c) ==
    LET n == nodes[q] IN
    IF n.k = "load" /\ c.st = "err" THEN Caught(n, c.err)
    ELSE [n EXCEPT !.st = c.st, !.out = c.out, !.err = c.err]

\* `return resolve( data, source, env )` of loadJSON, and
\* `value = await loadJSON( ... )` of resolve: the caller settles as the
\* call it made did. The return is outside the reach of loadJSON's catch.
Adopted(q, c) ==
    LET n == nodes[q] IN
    [n EXCEPT !.st = c.st, !.out = c.out, !.err = c.err]

\* The call at p has settled and the call awaiting it goes on.
Settle(p) ==
    /\ Queued(p)
    /\ LET q == Parent(p)
           i == p[Len(p)]
           c == nodes[p]
           n == nodes[q]
           done == [nodes EXCEPT ![p].dl = TRUE]
       IN  /\ nodes' =
                 IF n.k = "load" \/ IsLink(n.val)
                 THEN [done EXCEPT ![q] = Adopted(q, c)]
                 ELSE IF n.val.t = "arr"
                 THEN [done EXCEPT ![q] = ArraySettled(q, i, c)]
                 ELSE \* for( let name in value ) value[name] = await resolve( ... )
                      IF c.st = "err"
                      THEN [done EXCEPT ![q].st = "err", ![q].err = c.err]
                      ELSE IF i < Len(n.val.kids)
                      THEN [done EXCEPT ![q].out.kids[i] = c.out, ![q].nxt = i + 1]
                           @@ Spawn(Append(q, i + 1), n.val.kids[i + 1], n.src, env)
                      ELSE [done EXCEPT ![q].out.kids[i] = c.out, ![q].st = "ok"]
           /\ Cardinality(Loads(nodes')) <= MaxLoads
    /\ UNCHANGED <<world, env, root, call>>

Next ==
    \/ ParseSource
    \/ \E p \in DOMAIN nodes : ReadDone(p)
    \/ \E p \in DOMAIN nodes : Settle(p)

Spec == Init /\ [][Next]_vars

\* The top-level call has settled.
RootDone == nodes[<<>>].st \in {"ok", "err"}

\* ----------------------------------------------- replace(), called directly
\* The pieces an input text of replace() is made of.
Segs == {<<"$", "{", "v", "}">>, <<"$", "{", "w", "}">>, <<"$", "{", "c", "}">>,
         <<"a">>, <<"/">>, <<"$">>, <<"{">>, <<"}">>}

RECURSIVE SegTexts(_)
\* The texts of at most n pieces.
SegTexts(n) ==
    IF n = 0 THEN {<<>>}
    ELSE LET shorter == SegTexts(n - 1) IN
         shorter \cup {t \o g : t \in shorter, g \in Segs}

InitExpand ==
    /\ root = CHOOSE r \in RootArgs : TRUE
    /\ env = [n \in {} |-> <<>>]
    /\ nodes = (<<>> :> LoadNode(NoSource, TRUE, "parse"))
    /\ world = [x \in {} |-> NoAnswer]
    /\ call \in {[NoCall EXCEPT !.op = "replace", !.str = t, !.env = e] :
                    t \in SegTexts(MaxSegs), e \in Envs}

\* replace( str, env ) is called.
DoReplace ==
    /\ call.op = "replace"
    /\ call' = [call EXCEPT !.op = "replaced", !.result = replace(call.str, call.env)]
    /\ UNCHANGED <<nodes, world, env, root>>

SpecExpand == InitExpand /\ [][DoReplace]_vars

\* ----------------------------------------- Source.resolve, called directly
\* The sources and the references Source.resolve is called with.
ThisSources ==
    {NewSource(rp, fp, c) :
        rp \in {Null, <<"/", "r">>},
        fp \in {<<"/", "x", "/", "a">>, <<"x", "/", "a">>, <<"a">>,
                 <<"/", "x", "/", "y", "/", "a">>},
        c \in {Undef, <<"1">>}}

RefTexts == {<<"b">>, <<".", ".", "/", "c">>, <<"y", "/", "b">>, <<"b", "#", "2">>,
             <<"b", "#">>, <<>>, <<"/", "x", "/", "b">>, <<"/", "x", "/", "b", "#", "2">>}

InitSource ==
    /\ root = CHOOSE r \in RootArgs : TRUE
    /\ env = [n \in {} |-> <<>>]
    /\ nodes = (<<>> :> LoadNode(NoSource, TRUE, "parse"))
    /\ world = [x \in {} |-> NoAnswer]
    /\ call \in {[NoCall EXCEPT !.op = "resolve", !.this = s, !.str = r] :
                    s \in ThisSources, r \in RefTexts}

\* this.resolve( ref ) is called.
DoSourceResolve ==
    /\ call.op = "resolve"
    /\ call' = [call EXCEPT !.op = "resolved", !.made = Source_resolve(call.this, call.str)]
    /\ UNCHANGED <<nodes, world, env, root>>

SpecSource == InitSource /\ [][DoSourceResolve]_vars

\* -------------------------------------- Source.parseSource, called directly
\* The path texts Source.parseSource is called with.
ParseTexts == {
    <<"/", "r", ".", "g", "i", "t", "/", "a">>,
    <<"/", "r", ".", "g", "i", "t", "/", "x", "/", "a">>,
    <<"/", "w", "/", "r", ".", "g", "i", "t", "/", "a">>,
    <<"/", "r", ".", "g", "i", "t", "/", "a", "#", "1">>,
    <<"/", "x", "/", "a">>,
    <<"/", "x", "/", "y", "/", "a", "#", "1">>,
    <<"/", "x", "/", ".", ".", "/", "x", "/", "a">>
}

\* What `git rev-parse --is-bare-repository` run in a directory can answer:
\* it cannot be invoked, it exits 128 with no output (not a repository),
\* or it prints true or false.
BareAnswers ==
    {[err |-> "ENOENT", code |-> 0, stdout |-> <<>>],
     [err |-> "", code |-> 128, stdout |-> <<>>],
     [err |-> "", code |-> 0, stdout |-> <<"t", "r", "u", "e", "\n">>],
     [err |-> "", code |-> 0, stdout |-> <<"f", "a", "l", "s", "e", "\n">>]}

\* A bare repository has no work tree: inside one, rev-parse --show-toplevel
\* prints nothing.
InitParse ==
    /\ root = CHOOSE r \in RootArgs : TRUE
    /\ env = [n \in {} |-> <<>>]
    /\ nodes = (<<>> :> LoadNode(NoSource, TRUE, "parse"))
    /\ world = [x \in {} |-> NoAnswer]
    /\ call \in {[NoCall EXCEPT !.op = "parse", !.str = t, !.bare = b, !.top = a] :
                    t \in ParseTexts, b \in BareAnswers,
                    a \in UNION {TopLevelAnswers(PathDirname(u)) : u \in ParseTexts}}
    /\ call.top \in TopLevelAnswers(PathDirname(call.str))
    /\ Git_isBare(call.bare) => call.top.stdout = <<>>

\* Source.parseSource( ref ) is called.
DoParseSource ==
    /\ call.op = "parse"
    /\ call' = [call EXCEPT !.op = "parsed",
                            !.made = parseSource(call.str, call.bare, call.top)]
    /\ UNCHANGED <<nodes, world, env, root>>

SpecParse == InitParse /\ [][DoParseSource]_vars

\* ================================================================== claims
\* The loadJSON calls made for a link, the top-level call left aside.
LinkLoads == {p \in Loads(nodes) : p # <<>>}

\* The link text that made the loadJSON call at p, and the source of the
\* document that holds it.
TokenOf(p) == nodes[Parent(p)].val.s
HolderOf(p) == nodes[Parent(p)].src

\* The read of the loadJSON call at p is over.
ReadOver(p) == nodes[p].st \notin {"parse", "read"}

\* The link text carries the required marker: @!path.
HasMarker(tok) == Len(tok) >= 2 /\ tok[2] = "!"

\* The target of the call at p is absent: the file read failed with ENOENT,
\* or git show found no such path at the revision (exit status 128).
Absent(p) ==
    LET a == nodes[p].ans IN
    IF nodes[p].src.repoPath = Null THEN a.err = "ENOENT"
    ELSE a.err = "" /\ a.code = 128

\* The target of the call at p exists and its content is not JSON.
Malformed(p) ==
    LET a == nodes[p].ans IN
    ReadOver(p) /\ a.err = "" /\ a.code = 0 /\ a.text.kind = "garbage"

\* C1: for every link whose target is absent, a link with the required
\* marker (@!path) makes its load and the top-level loadJSON fail, and a
\* link without the marker (@path) is replaced by null.
C1_RequiredFailsOptionalNull ==
    \A p \in LinkLoads :
        (ReadOver(p) /\ Absent(p)) =>
            IF HasMarker(TokenOf(p))
            THEN nodes[p].st = "err" /\ nodes[<<>>].st # "ok"
            ELSE nodes[p].st = "ok" /\ nodes[p].out = Nul

\* C2: a file reached by a load, top-level or nested, that exists and holds
\* no well-formed JSON makes its load fail with the parse error, whatever
\* the required flag, and the top-level loadJSON never succeeds; the parse
\* failure is never turned into null.
C2_MalformedAlwaysFails ==
    \A p \in Loads(nodes) :
        Malformed(p) =>
            /\ nodes[p].st = "err"
            /\ nodes[p].err.from = "parse"
            /\ nodes[<<>>].st # "ok"

\* C2 witness: an optional link reached a malformed file, and the
\* top-level call has failed with the parse error.
C2_Witness ==
    \E p \in LinkLoads :
        /\ Malformed(p)
        /\ ~nodes[p].req
        /\ ~HasMarker(TokenOf(p))
        /\ nodes[<<>>].st = "err"
        /\ nodes[<<>>].err.from = "parse"

\* A read failure other than an absent target: a file-system error other
\* than ENOENT, or a git subprocess that could not be invoked or exited
\* non-zero.
OtherReadFailure(p) ==
    LET a == nodes[p].ans IN
    IF nodes[p].src.repoPath = Null THEN a.err \notin {"", "ENOENT"}
    ELSE a.err # "" \/ a.code # 0

\* C3: a read failure other than an absent target makes the load fail,
\* also when the load is optional; it is never turned into null.
C3_OtherReadFailuresFail ==
    \A p \in Loads(nodes) :
        (ReadOver(p) /\ OtherReadFailure(p)) => nodes[p].st = "err"

RECURSIVE NoLinks(_)
\* No string value of v, at any depth, begins with @.
NoLinks(v) ==
    /\ ~IsLink(v)
    /\ \A i \in 1..Len(v.kids) : NoLinks(v.kids[i])

\* C4: whenever a loadJSON call, top-level or nested, completes
\* successfully, the value it returns holds no link at any depth.
C4_NoLinksRemain ==
    \A p \in Loads(nodes) : nodes[p].st = "ok" => NoLinks(nodes[p].out)

\* C4 witness: the top-level call has completed with a document that was
\* reached through two levels of links, all of them replaced.
C4_Witness ==
    /\ nodes[<<>>].st = "ok"
    /\ nodes[<<>>].out = Obj(<<"k">>, <<Obj(<<"k">>, <<DLeaf>>)>>)
    /\ Cardinality(Loads(nodes)) = 3

\* The first place of a variable token in text, 0 when there is none.
FirstTok(text) ==
    IF \E i \in 1..Len(text) : TokAt(text, i)
    THEN CHOOSE i \in 1..Len(text) :
            TokAt(text, i) /\ \A j \in 1..(i - 1) : ~TokAt(text, j)
    ELSE 0

RECURSIVE ExpandAll(_, _)
\* expand(text, context) as specified: the first token is replaced by its
\* value, or by nothing when the name is absent, and so on with the rest.
ExpandAll(text, ctx) ==
    LET i == FirstTok(text) IN
    IF i = 0 THEN text
    ELSE Take(text, i - 1)
         \o EnvGet(ctx, SubSeq(text, i + 2, TokEnd(text, i) - 1))
         \o ExpandAll(Drop(text, TokEnd(text, i)), ctx)

\* C5: replace() replaces every variable token of its text, repeated or
\* distinct, by the value of the name, or by nothing when the name is
\* absent, and returns a text without tokens unchanged.
C5_ExpandsEveryToken ==
    call.op = "replaced" => call.result = ExpandAll(call.str, call.env)

\* text up to its first #, the revision suffix left out.
BeforeHash(text) ==
    IF IndexOf(text, "#") = 0 THEN text ELSE Take(text, IndexOf(text, "#") - 1)

\* path re-based on the directory of the holder's file path, an absolute
\* path left as it is.
Rebased(holder, path) ==
    IF Len(path) > 0 /\ path[1] = "/" THEN path
    ELSE PathJoin(PathDirname(holder.filePath), path)

\* The path C6 says a link loads: the text without the sigil and without
\* the marker, every variable token expanded.
ClaimedPath(tok, ctx) ==
    LET t == Drop(tok, 1)
        u == IF Len(t) > 0 /\ t[1] = "!" THEN Drop(t, 1) ELSE t
    IN  BeforeHash(ExpandAll(u, ctx))

\* C6: the path loaded for a link is the link text without the @ sigil
\* and the ! marker, its variable tokens expanded against the context,
\* re-based on the document that holds the link.
C6_LoadsExpandedPath ==
    \A p \in LinkLoads :
        nodes[p].src.filePath = Rebased(HolderOf(p), ClaimedPath(TokenOf(p), env))

\* The path of a link as resolve hands it to Source.resolve, its revision
\* suffix left out.
LinkPath(p) == BeforeHash(LinkOf(nodes[Parent(p)].val, env).path)

IsRelative(path) == Len(path) = 0 \/ path[1] # "/"

\* C7: a relative link is re-based on the directory of the file path of
\* the document that holds it, at every level of nesting: @b inside /x/a
\* loads /x/b, and @../c inside /x/y/a loads /x/c.
C7_RebasedOnDirectory ==
    \A p \in LinkLoads :
        LET holder == HolderOf(p).filePath
            loaded == nodes[p].src.filePath
            path   == LinkPath(p)
        IN  /\ IsRelative(path) =>
                  loaded = PathJoin(PathDirname(holder), path)
            /\ (holder = <<"/", "x", "/", "a">> /\ TokenOf(p) = <<"@", "b">>) =>
                  loaded = <<"/", "x", "/", "b">>
            /\ (holder = <<"/", "x", "/", "y", "/", "a">>
                    /\ TokenOf(p) = <<"@", ".", ".", "/", "c">>) =>
                  loaded = <<"/", "x", "/", "c">>

\* C7 witness: /x/y/a links to ../c, loaded as /x/c, which in turn links
\* to b, loaded as /x/b.
C7_Witness ==
    /\ <<1, 1, 1, 1, 1, 1>> \in DOMAIN nodes
    /\ nodes[<<>>].src.filePath = <<"/", "x", "/", "y", "/", "a">>
    /\ TokenOf(<<1, 1, 1>>) = <<"@", ".", ".", "/", "c">>
    /\ nodes[<<1, 1, 1>>].src.filePath = <<"/", "x", "/", "c">>
    /\ TokenOf(<<1, 1, 1, 1, 1, 1>>) = <<"@", "b">>
    /\ nodes[<<1, 1, 1, 1, 1, 1>>].src.filePath = <<"/", "x", "/", "b">>

\* C8: Source.resolve of an absolute reference returns a descriptor built
\* from the reference alone: the reference's path, and no repository root
\* and no revision of the source it is resolved against.
C8_AbsoluteBuiltFromReference ==
    (call.op = "resolved" /\ ~IsRelative(call.str)) =>
        call.made = NewSource(Null, call.str, Undef)

\* The commit-ish git reads at for a source's commit-ish c.
EffectiveRev(c) == IF c = Undef \/ c = <<>> THEN Master ELSE c

\* C9: Source.resolve of a relative reference keeps the repository root of
\* the source it is resolved against, and its revision unless the
\* reference has a #revision suffix of its own, which then is the new
\* source's revision; a reference without one is read at the revision of
\* the source it is resolved against.
C9_CarriesRepoAndRevision ==
    (call.op = "resolved" /\ IsRelative(call.str)) =>
        LET i == IndexOf(call.str, "#") IN
        /\ call.made.repoPath = call.this.repoPath
        /\ call.made.commitish =
              IF i > 0 THEN Drop(call.str, i) ELSE call.this.commitish
        /\ (i = 0 /\ call.this.repoPath # Null) =>
              ReadKey(call.made) =
                  GitKey(call.this.repoPath,
                         EffectiveRev(call.this.commitish) \o <<":">> \o call.made.filePath)

\* C9 witness: b#2 resolved against a source of revision 1 of a
\* repository gives a source of that repository at revision 2.
C9_Witness ==
    /\ call.op = "resolved"
    /\ call.str = <<"b", "#", "2">>
    /\ call.this = NewSource(<<"/", "r">>, <<"x", "/", "a">>, <<"1">>)
    /\ call.made = NewSource(<<"/", "r">>, <<"x", "/", "b">>, <<"2">>)

\* The request that asks git for the file of a source at its revision.
RevisionKey(src) ==
    GitKey(src.repoPath, EffectiveRev(src.commitish) \o <<":">> \o src.filePath)

GitFailed(p) ==
    /\ nodes[p].src.repoPath # Null
    /\ ReadOver(p)
    /\ (nodes[p].ans.err # "" \/ nodes[p].ans.code # 0)

\* C11: Git.read fails whenever the git subprocess it runs cannot be
\* invoked or exits with a non-zero status; it returns no text then.
C11_GitReadFailsOnFailure ==
    \A p \in Loads(nodes) : GitFailed(p) => Git_read(nodes[p].ans).rejected

\* The resolve calls made on an array.
ArrayCalls == {q \in DOMAIN nodes : nodes[q].k = "res" /\ nodes[q].val.t = "arr"}

\* C12: an array whose resolve has completed has the length of the input
\* array, and its position i holds the value that the resolve of input
\* element i gave (for a link, what the load of that link returned),
\* whatever the order in which the loads of the elements completed.
C12_ArrayKeepsPositions ==
    \A q \in ArrayCalls :
        nodes[q].st = "ok" =>
            /\ Len(nodes[q].out.kids) = Len(nodes[q].val.kids)
            /\ \A i \in 1..Len(nodes[q].val.kids) :
                  LET item == nodes[Append(q, i)] IN
                  /\ item.val = nodes[q].val.kids[i]
                  /\ item.st = "ok"
                  /\ nodes[q].out.kids[i] = item.out
                  /\ IsLink(item.val) =>
                        nodes[q].out.kids[i] = nodes[Append(Append(q, i), 1)].out

\* C12 witness: an array of two links has been resolved to two different
\* documents, the read of the second link having completed before the
\* read of the first.
C12_Witness ==
    \E q \in ArrayCalls :
        /\ nodes[q].st = "ok"
        /\ Len(nodes[q].val.kids) = 2
        /\ IsLink(nodes[q].val.kids[1]) /\ IsLink(nodes[q].val.kids[2])
        /\ nodes[q \o <<2, 1>>].nxt < nodes[q \o <<1, 1>>].nxt
        /\ nodes[q].out.kids[1] = DLeaf
        /\ nodes[q].out.kids[2] = DLeaf2

\* C13: a loadJSON call resolves to null only when it was called with
\* required = false and its target is absent, and a top-level call with
\* required = true whose target is absent rejects.
C13_NullOnlyWhenOptionalAbsent ==
    /\ \A p \in Loads(nodes) :
          (nodes[p].st = "ok" /\ nodes[p].out = Nul) =>
              (~nodes[p].req /\ Absent(p))
    /\ (nodes[<<>>].req /\ ReadOver(<<>>) /\ Absent(<<>>)) => nodes[<<>>].st = "err"

\* component ends with the repository marker suffix .git
EndsWithGit(component) ==
    /\ Len(component) >= 4
    /\ SubSeq(component, Len(component) - 3, Len(component)) = <<".", "g", "i", "t">>

\* The place of the first component of parts that ends with .git, 0 when
\* there is none.
MarkerIndex(parts) ==
    IF \E i \in 1..Len(parts) : EndsWithGit(parts[i])
    THEN CHOOSE i \in 1..Len(parts) :
            EndsWithGit(parts[i]) /\ \A j \in 1..(i - 1) : ~EndsWithGit(parts[j])
    ELSE 0

InputText(p) == IF p = <<>> THEN root.text ELSE TokenOf(p)

\* The loadJSON calls whose source has been made from a text.
MadeFromText == {p \in Loads(nodes) : nodes[p].st # "parse" /\ (p = <<>> => ~root.isSource)}

\* C15: the file path of every source, made by the constructor, by
\* Source.parseSource for the top-level path or by Source.resolve for a
\* link, holds no # and no @ (the link texts hold one @, their sigil); a
\* #revision of the text the source was made from is the source's
\* commit-ish and is no part of its file path.
C15_FilePathHoldsNoRevision ==
    /\ \A p \in Loads(nodes) :
          nodes[p].st # "parse" =>
              /\ IndexOf(nodes[p].src.filePath, "#") = 0
              /\ IndexOf(nodes[p].src.filePath, "@") = 0
    /\ \A p \in MadeFromText :
          LET i == IndexOf(InputText(p), "#") IN
          i > 0 => nodes[p].src.commitish = Drop(InputText(p), i)

\* C15 witness: the top-level path /x/a#1 was parsed into a source of
\* revision 1, and a link @b#2 of its document into one of revision 2 with
\* the file path /x/b.
C15_Witness ==
    /\ ~root.isSource
    /\ root.text = <<"/", "x", "/", "a", "#", "1">>
    /\ nodes[<<>>].src = NewSource(Null, <<"/", "x", "/", "a">>, <<"1">>)
    /\ \E p \in LinkLoads :
          /\ TokenOf(p) = <<"@", "b", "#", "2">>
          /\ nodes[p].src = NewSource(Null, <<"/", "x", "/", "b">>, <<"2">>)

\* C16: the resolve of a value that holds no link at any depth returns a
\* value equal to its input, keys, order and primitives alike, also where
\* a string holds a variable token; a document without links is what its
\* load returns.
C16_NoLinksUnchanged ==
    /\ \A q \in DOMAIN nodes :
          (nodes[q].k = "res" /\ nodes[q].st = "ok" /\ NoLinks(nodes[q].val)) =>
              nodes[q].out = nodes[q].val
    /\ \A p \in Loads(nodes) :
          (nodes[p].st = "ok" /\ nodes[p].ans.text.kind = "json"
              /\ NoLinks(nodes[p].ans.text.doc)) =>
              nodes[p].out = nodes[p].ans.text.doc

\* C16 witness: the document { s: "n${v}", t: ["b", null] } has been loaded
\* with v defined in the context, and returned as it is.
C16_Witness ==
    /\ <<"v">> \in DOMAIN env
    /\ nodes[<<>>].st = "ok"
    /\ nodes[<<>>].ans.text = JsonText(DPlain)
    /\ nodes[<<>>].out = DPlain

\* The calls that await, directly or not, the call at p.
Awaiting(p) == {SubSeq(p, 1, n) : n \in 0..(Len(p) - 1)}

\* The call made by the call at a on the way to the call at p.
Toward(a, p) == SubSeq(p, 1, Len(a) + 1)

\* C17: the failure of a required link whose target is absent passes
\* through every call that awaits it, optional loads included, up to the
\* top-level call: none of them completes with a value or with null, and
\* each fails once the failure has been delivered to it.
C17_NestedFailurePropagates ==
    \A p \in LinkLoads :
        (nodes[p].req /\ ReadOver(p) /\ Absent(p)) =>
            /\ nodes[p].st = "err"
            /\ \A a \in Awaiting(p) :
                  /\ nodes[a].st # "ok"
                  /\ nodes[Toward(a, p)].dl => nodes[a].st = "err"

\* C17 witness: an optional link led to an existing document with a
\* required link to an absent file, and the optional load and the
\* top-level call have both failed with that ENOENT.
C17_Witness ==
    \E p \in LinkLoads : \E a \in Awaiting(p) \cap LinkLoads :
        /\ nodes[p].req /\ ReadOver(p) /\ Absent(p)
        /\ nodes[p].src.repoPath = Null
        /\ ~nodes[a].req
        /\ ~HasMarker(TokenOf(a))
        /\ nodes[a].ans.text.kind = "json"
        /\ nodes[a].st = "err"
        /\ nodes[a].err = [code |-> "ENOENT", from |-> "fs"]
        /\ nodes[<<>>].st = "err"
        /\ nodes[<<>>].err = [code |-> "ENOENT", from |-> "fs"]

RECURSIVE LinksIn(_)
\* The links a value holds, at any depth.
LinksIn(v) ==
    (IF IsLink(v) THEN {v} ELSE {})
    \cup UNION {LinksIn(v.kids[i]) : i \in 1..Len(v.kids)}

\* The read of the call at p found a well-formed document.
Sound(p) ==
    LET a == nodes[p].ans IN
    ReadOver(p) /\ a.err = "" /\ a.code = 0 /\ a.text.kind = "json"

\* The loadJSON calls on the way from the top-level call to the call at p,
\* p included.
Chain(p) == (Awaiting(p) \cup {p}) \cap Loads(nodes)

\* The document read by the call at p holds a link to the file of a call
\* of its chain: the files form a reference cycle.
ClosesCycle(p) ==
    /\ Sound(p)
    /\ \E l \in LinksIn(nodes[p].ans.text.doc) :
          ReadKey(Source_resolve(nodes[p].src, LinkOf(l, env).path))
              \in {ReadKey(nodes[a].src) : a \in Chain(p)}

\* C18: no cycle is detected. When the documents read so far are all
\* well-formed and one of them links back to a file of its own chain of
\* loads, neither its load nor any call awaiting it ever completes, with
\* a value or with an error: the loads go on. And there is no other way
\* for a load to hang: once every read has completed and every call that
\* settled has been attended to, the top-level call has completed.
C18_CyclesNeverComplete ==
    /\ (\A q \in Loads(nodes) : ReadOver(q) => Sound(q)) =>
          \A p \in Loads(nodes) :
              (\E x \in Awaiting(p) \cup {p} : nodes[x].st # "wait") => ~ClosesCycle(p)
    /\ ((\A q \in Loads(nodes) : ReadOver(q)) /\ (\A q \in DOMAIN nodes : ~Queued(q)))
          => RootDone

\* C18 witness: the document of the top-level call links to a second
\* file whose document links back to the first, which has been loaded
\* a second time, as many loads as the bound allows; nothing has completed.
C18_Witness ==
    \E p, q \in LinkLoads :
        /\ p \in Awaiting(q)
        /\ ClosesCycle(p)
        /\ ReadKey(nodes[p].src) # ReadKey(nodes[<<>>].src)
        /\ ReadKey(nodes[q].src) = ReadKey(nodes[<<>>].src)
        /\ Cardinality(Loads(nodes)) = MaxLoads
        /\ \A x \in Awaiting(q) : nodes[x].st = "wait"

\* C19: the load made for a link is required exactly when the link text
\* has the marker ! right after its @ sigil; the flag is settled before
\* the variables are replaced, so the value of a variable has no part in it.
C19_RequiredDecidedByText ==
    \A p \in LinkLoads : nodes[p].req = HasMarker(TokenOf(p))

====
